---- MODULE Spec2Model ----
(***************************************************************************)
(* Model of the ink! contract OptionsAndFutures                            *)
(* (src/options_and_futures/lib.rs): an owner-administered voter registry  *)
(* with a per-voter vote budget and a signed reputation.                   *)
(*                                                                         *)
(* The integer types i128 (Reputation, votes) and u128 (available_votes)   *)
(* are modelled as two's-complement integers of Bits bits, so that the     *)
(* overflow cases of votes.abs() and of reputation += votes are reachable. *)
(* Whether an overflow panics or wraps depends on the build profile        *)
(* (overflow-checks); the model lets the deployment be either.             *)
(***************************************************************************)
EXTENDS Integers, Sequences, FiniteSets, TLC

\* ------------------------------------------------------------------ bounds
\* Width of the modelled integers (128 in the source, scaled down).
Bits == 3
\* Number of message calls explored after construction.
MaxCalls == 4

VARIABLES
    voters,            \* Mapping<AccountId, Voter>, a function on the set of keys
    voters_addresses,  \* Vec<AccountId>
    owner,             \* AccountId
    deployer,          \* env().caller() of the constructor call
    overflow_checks,   \* build profile: TRUE = arithmetic overflow panics
    last,              \* the latest message call and what it returned
    calls,             \* number of message calls made so far
    granted            \* the available_votes each account got at its latest add_voter

vars == <<voters, voters_addresses, owner, deployer, overflow_checks, last, calls, granted>>

\* --------------------------------------------------------------- integers
Pow2(n) == 2 ^ n
I_MIN == -Pow2(Bits - 1)
I_MAX == Pow2(Bits - 1) - 1
U_MAX == Pow2(Bits) - 1

\* The accounts that call the contract; 0 stands for the all-zero AccountId.
AccountId == {0, 1, 2}
\* The accounts that may instantiate it.
Deployers == {0, 1}

\* i128::abs overflows exactly on i128::MIN.
abs_overflows(votes) == votes = I_MIN

\* i128::abs without overflow checks: MIN.abs() wraps to MIN.
wrapping_abs(votes) ==
    IF votes = I_MIN THEN I_MIN ELSE IF votes < 0 THEN -votes ELSE votes

\* `x as u128` for a signed x: reinterpretation modulo 2^Bits.
as_u128(x) == x % Pow2(Bits)

\* `votes.abs() as u128` when abs() returns.
magnitude(votes) == as_u128(wrapping_abs(votes))

\* `candidate.reputation += votes` overflows i128.
add_overflows(reputation, votes) ==
    reputation + votes < I_MIN \/ reputation + votes > I_MAX

\* `candidate.reputation += votes` without overflow checks.
wrapping_add(reputation, votes) ==
    ((reputation + votes - I_MIN) % Pow2(Bits)) + I_MIN

\* `voter.available_votes -= votes.abs() as u128` underflows u128.
sub_overflows(available_votes, votes) == available_votes < magnitude(votes)

\* Mutation of debit: the signed amount is subtracted, not its magnitude.
debit_signed(available_votes, votes) == (available_votes - votes) % Pow2(Bits)

\* `voter.available_votes -= votes.abs() as u128`
debit(available_votes, votes) == (available_votes - magnitude(votes)) % Pow2(Bits)

\* ---------------------------------------------------------------- storage
Registered(vs, k) == k \in DOMAIN vs

\* Mutation of insert: an existing record is kept.
insert_if_absent(vs, k, v) == IF k \in DOMAIN vs THEN vs
                              ELSE [x \in (DOMAIN vs) \cup {k} |-> IF x = k THEN v ELSE vs[x]]

\* Mapping::insert
insert(vs, k, v) == [x \in (DOMAIN vs) \cup {k} |-> IF x = k THEN v ELSE vs[x]]

\* Mutation of remove: every record is deleted.
remove_all(vs, k) == <<>>

\* Mapping::remove
remove(vs, k) == [x \in (DOMAIN vs) \ {k} |-> vs[x]]

\* Mutation of push: the address is not appended.
push_forgotten(addrs, a) == addrs

\* Mutation of push: the address is put in front.
push_front(addrs, a) == <<a>> \o addrs

\* Vec::push
push(addrs, a) == Append(addrs, a)

\* Mutation of new_voter: a record that starts with reputation 1.
new_voter_rep1(voter, available_votes) ==
    [reputation |-> 1, address |-> voter, available_votes |-> available_votes]

\* The Voter written by add_voter.
new_voter(voter, available_votes) ==
    [reputation |-> 0, address |-> voter, available_votes |-> available_votes]

\* Mutation of is_owner: the owner gate is left out.
no_owner_gate(caller, own) == TRUE

\* `self.env().caller() != self.owner` negated.
is_owner(caller, own) == caller = own

\* Mutation of new_owner: the all-zero account instead of the caller.
zero_account_owner(caller) == 0

\* Owner stored by the constructor: `Self::env().caller()`.
new_owner(caller) == caller

\* ---------------------------------------------------------------- results
Ok == "Ok"
OnlyOwnerFunction == "OnlyOwnerFunction"
UnregisteredVoter == "UnregisteredVoter"
VoterAlreadyVoted == "VoterAlreadyVoted"
VoterEqualToCandidate == "VoterEqualToCandidate"
\* The call panicked (arithmetic overflow under overflow-checks): no value is returned.
Trap == "Trap"

Errors == {OnlyOwnerFunction, UnregisteredVoter, VoterAlreadyVoted, VoterEqualToCandidate}

\* Target recorded for a call that takes no account argument.
NoAccount == -1

Call(op, caller, target, amount, result, ret) ==
    [op |-> op, caller |-> caller, target |-> target, amount |-> amount,
     result |-> result, ret |-> ret]

\* ------------------------------------------------------------ constructor
Init ==
    /\ deployer \in Deployers
    /\ overflow_checks \in BOOLEAN
    /\ voters = <<>>
    /\ voters_addresses = <<>>
    /\ owner = new_owner(deployer)
    /\ last = Call("new", deployer, NoAccount, 0, Ok, <<>>)
    /\ calls = 0
    /\ granted = <<>>

\* -------------------------------------------------------------- add_voter
Budgets == {1, U_MAX}

add_voter(caller, voter, available_votes) ==
    IF ~is_owner(caller, owner)
    THEN /\ last' = Call("add_voter", caller, voter, available_votes, OnlyOwnerFunction, <<>>)
         /\ UNCHANGED <<voters, voters_addresses, owner, deployer, overflow_checks, granted>>
    ELSE /\ voters_addresses' = push(voters_addresses, voter)
         /\ voters' = insert(voters, voter, new_voter(voter, available_votes))
         /\ granted' = [x \in (DOMAIN granted) \cup {voter} |->
                           IF x = voter THEN available_votes ELSE granted[x]]
         /\ last' = Call("add_voter", caller, voter, available_votes, Ok, <<>>)
         /\ UNCHANGED <<owner, deployer, overflow_checks>>

\* ------------------------------------------------------------------- vote
Amounts == {I_MIN, -1, 1, I_MAX}

Outcome(result, vs) == [result |-> result, voters |-> vs]

\* Mutation of candidate_missing: the caller's debit is written before the
\* candidate is looked up.
candidate_missing_after_debit(vs, caller, voter, votes) ==
    Outcome(UnregisteredVoter,
            insert(vs, caller, [voter EXCEPT !.available_votes = debit(@, votes)]))

\* `self.voters.get(candidate_address).ok_or(Error::UnregisteredVoter)?` failing.
candidate_missing(vs, caller, voter, votes) == Outcome(UnregisteredVoter, vs)

\* Mutation of budget_insufficient: the budget is compared with the signed amount.
budget_check_signed(voter, votes) == voter.available_votes < votes

\* `voter.available_votes < (votes.abs() as u128)`
budget_insufficient(voter, votes) == voter.available_votes < magnitude(votes)

\* Mutation of is_self_vote: the self-vote check is left out.
self_vote_unchecked(candidate_address, voter) == FALSE

\* `candidate_address == voter.address`
is_self_vote(candidate_address, voter) == candidate_address = voter.address

\* Mutation of settle: the two records are written back under each other's key.
settle_swapped(vs, caller, voter, candidate_address, votes, checks) ==
    IF ~Registered(vs, candidate_address)
    THEN candidate_missing(vs, caller, voter, votes)
    ELSE IF checks /\ add_overflows(vs[candidate_address].reputation, votes)
    THEN Outcome(Trap, vs)
    ELSE IF checks /\ sub_overflows(voter.available_votes, votes)
    THEN Outcome(Trap, vs)
    ELSE LET candidate == [vs[candidate_address] EXCEPT
                              !.reputation = wrapping_add(@, votes)]
             debited == [voter EXCEPT !.available_votes = debit(@, votes)]
         IN  Outcome(Ok, insert(insert(vs, candidate_address, debited), caller, candidate))

\* Lines 90-98: both records updated and written back.
settle(vs, caller, voter, candidate_address, votes, checks) ==
    IF ~Registered(vs, candidate_address)
    THEN candidate_missing(vs, caller, voter, votes)
    ELSE IF checks /\ add_overflows(vs[candidate_address].reputation, votes)
    THEN Outcome(Trap, vs)
    ELSE IF checks /\ sub_overflows(voter.available_votes, votes)
    THEN Outcome(Trap, vs)
    ELSE LET candidate == [vs[candidate_address] EXCEPT
                              !.reputation = wrapping_add(@, votes)]
             debited == [voter EXCEPT !.available_votes = debit(@, votes)]
         IN  Outcome(Ok, insert(insert(vs, candidate_address, candidate), caller, debited))

\* Lines 82-88 for the caller's record `voter`.
vote_as(vs, caller, voter, candidate_address, votes, checks) ==
    IF checks /\ abs_overflows(votes)
    THEN Outcome(Trap, vs)
    ELSE IF budget_insufficient(voter, votes)
    THEN Outcome(VoterAlreadyVoted, vs)
    ELSE IF is_self_vote(candidate_address, voter)
    THEN Outcome(VoterEqualToCandidate, vs)
    ELSE settle(vs, caller, voter, candidate_address, votes, checks)

\* Mutation of vote_outcome: a caller without a record votes with an empty
\* default record instead of being rejected.
vote_default_record(vs, caller, candidate_address, votes, checks) ==
    vote_as(vs, caller,
            IF Registered(vs, caller) THEN vs[caller] ELSE new_voter(caller, 0),
            candidate_address, votes, checks)

\* Line 80: the caller's record, or UnregisteredVoter.
vote_outcome(vs, caller, candidate_address, votes, checks) ==
    IF ~Registered(vs, caller)
    THEN Outcome(UnregisteredVoter, vs)
    ELSE vote_as(vs, caller, vs[caller], candidate_address, votes, checks)

vote(caller, candidate_address, votes) ==
    LET r == vote_outcome(voters, caller, candidate_address, votes, overflow_checks)
    IN  /\ voters' = r.voters
        /\ last' = Call("vote", caller, candidate_address, votes, r.result, <<>>)
        /\ UNCHANGED <<voters_addresses, owner, deployer, overflow_checks, granted>>

\* ----------------------------------------------------------- remove_voter
\* Mutation of remove_voter: the address is also taken out of voters_addresses.
remove_voter_pruning(caller, voter_address) ==
    IF ~is_owner(caller, owner)
    THEN /\ last' = Call("remove_voter", caller, voter_address, 0, OnlyOwnerFunction, <<>>)
         /\ UNCHANGED <<voters, voters_addresses, owner, deployer, overflow_checks, granted>>
    ELSE IF ~Registered(voters, voter_address)
    THEN /\ last' = Call("remove_voter", caller, voter_address, 0, UnregisteredVoter, <<>>)
         /\ UNCHANGED <<voters, voters_addresses, owner, deployer, overflow_checks, granted>>
    ELSE /\ voters' = remove(voters, voter_address)
         /\ voters_addresses' = SelectSeq(voters_addresses, LAMBDA x : x # voter_address)
         /\ last' = Call("remove_voter", caller, voter_address, 0, Ok, <<>>)
         /\ UNCHANGED <<owner, deployer, overflow_checks, granted>>

remove_voter(caller, voter_address) ==
    IF ~is_owner(caller, owner)
    THEN /\ last' = Call("remove_voter", caller, voter_address, 0, OnlyOwnerFunction, <<>>)
         /\ UNCHANGED <<voters, voters_addresses, owner, deployer, overflow_checks, granted>>
    ELSE IF ~Registered(voters, voter_address)
    THEN /\ last' = Call("remove_voter", caller, voter_address, 0, UnregisteredVoter, <<>>)
         /\ UNCHANGED <<voters, voters_addresses, owner, deployer, overflow_checks, granted>>
    ELSE /\ voters' = remove(voters, voter_address)
         /\ last' = Call("remove_voter", caller, voter_address, 0, Ok, <<>>)
         /\ UNCHANGED <<voters_addresses, owner, deployer, overflow_checks, granted>>

\* ------------------------------------------------------------- get_voters
\* Mutation of collect: an address without a record is skipped.
RECURSIVE collect_skipping(_, _, _)
collect_skipping(vs, addrs, acc) ==
    IF addrs = <<>> THEN Outcome(Ok, acc)
    ELSE IF ~Registered(vs, Head(addrs)) THEN collect_skipping(vs, Tail(addrs), acc)
    ELSE collect_skipping(vs, Tail(addrs), Append(acc, vs[Head(addrs)]))

\* The loop of get_voters: `?` returns at the first address without a record.
RECURSIVE collect(_, _, _)
collect(vs, addrs, acc) ==
    IF addrs = <<>> THEN Outcome(Ok, acc)
    ELSE IF ~Registered(vs, Head(addrs)) THEN Outcome(UnregisteredVoter, <<>>)
    ELSE collect(vs, Tail(addrs), Append(acc, vs[Head(addrs)]))

get_voters_result(vs, addrs) == collect(vs, addrs, <<>>)

get_voters(caller) ==
    LET r == get_voters_result(voters, voters_addresses)
    IN  /\ last' = Call("get_voters", caller, NoAccount, 0, r.result, r.voters)
        /\ UNCHANGED <<voters, voters_addresses, owner, deployer, overflow_checks, granted>>

\* ------------------------------------------------------------------- spec
\* One message call, processed to completion.
Tick == calls < MaxCalls /\ calls' = calls + 1

AddVoter ==
    /\ Tick
    /\ \E caller \in AccountId, voter \in AccountId, n \in Budgets :
           add_voter(caller, voter, n)

Vote ==
    /\ Tick
    /\ \E caller \in AccountId, candidate \in AccountId, votes \in Amounts :
           vote(caller, candidate, votes)

RemoveVoter ==
    /\ Tick
    /\ \E caller \in AccountId, voter \in AccountId : remove_voter(caller, voter)

GetVoters ==
    /\ Tick
    /\ \E caller \in AccountId : get_voters(caller)

Next == AddVoter \/ Vote \/ RemoveVoter \/ GetVoters

Spec == Init /\ [][Next]_vars

\* The executions in which every account is registered at most once and no
\* voter is removed: the owner's add_voter only for an account that is not in
\* voters_addresses, and remove_voter only where it is rejected.
AddVoterOnce ==
    /\ Tick
    /\ \E caller \in AccountId, voter \in AccountId, n \in Budgets :
           /\ is_owner(caller, owner)
                  => \A i \in 1 .. Len(voters_addresses) : voters_addresses[i] # voter
           /\ add_voter(caller, voter, n)

RemoveVoterRejected ==
    /\ Tick
    /\ \E caller \in AccountId, voter \in AccountId :
           /\ ~is_owner(caller, owner) \/ ~Registered(voters, voter)
           /\ remove_voter(caller, voter)

NextOnce == AddVoterOnce \/ Vote \/ RemoveVoterRejected \/ GetVoters

SpecOnce == Init /\ [][NextOnce]_vars

\* ----------------------------------------------------------------- claims
\* The contract's storage.
storage == <<voters, voters_addresses, owner>>

\* Mathematical absolute value.
Abs(x) == IF x < 0 THEN -x ELSE x

\* The step is a call of `op`; last' describes it.
Calls(op) == calls' = calls + 1 /\ last'.op = op

\* C1: for registered a # b with a.available_votes >= |v|, vote(a, b, v)
\* returns Ok, adds exactly v to b.reputation, takes exactly |v| from
\* a.available_votes and changes nothing else.
C1_VoteExactEffect ==
    [][(/\ Calls("vote")
        /\ Registered(voters, last'.caller)
        /\ Registered(voters, last'.target)
        /\ last'.caller # last'.target
        /\ voters[last'.caller].available_votes >= Abs(last'.amount))
       => (/\ last'.result = Ok
           /\ voters' = [voters EXCEPT
                  ![last'.target].reputation = @ + last'.amount,
                  ![last'.caller].available_votes = @ - Abs(last'.amount)]
           /\ UNCHANGED <<voters_addresses, owner>>)]_vars

\* C2: add_voter and remove_voter called by anyone but the owner return
\* OnlyOwnerFunction, whatever the arguments, and leave the storage unchanged.
C2_NonOwnerRejected ==
    [][((Calls("add_voter") \/ Calls("remove_voter")) /\ last'.caller # owner)
       => (last'.result = OnlyOwnerFunction /\ UNCHANGED storage)]_vars

\* A non-owner's remove_voter of an account without a record was rejected.
C2_Witness ==
    /\ last.op = "remove_voter"
    /\ last.caller # owner
    /\ ~Registered(voters, last.target)
    /\ last.result = OnlyOwnerFunction
    /\ voters_addresses # <<>>

C4_OverBudgetRejected ==
    [][(/\ Calls("vote")
        /\ Registered(voters, last'.caller)
        /\ Abs(last'.amount) > voters[last'.caller].available_votes)
       => (last'.result = VoterAlreadyVoted /\ voters' = voters)]_vars

\* C5: a vote called by an account without a record returns UnregisteredVoter
\* for every candidate and amount and changes nothing.
C5_UnregisteredCallerRejected ==
    [][(Calls("vote") /\ ~Registered(voters, last'.caller))
       => (last'.result = UnregisteredVoter /\ UNCHANGED storage)]_vars

\* The owner, not registered itself, voted I_MIN on a registered candidate.
C5_Witness ==
    /\ last.op = "vote"
    /\ last.caller = owner
    /\ ~Registered(voters, last.caller)
    /\ Registered(voters, last.target)
    /\ last.amount = I_MIN
    /\ last.result = UnregisteredVoter

\* C6: every call that returns one of the four errors leaves the mapping,
\* the enumeration sequence and the owner as they were.
C6_ErrorLeavesStorage ==
    [][(calls' = calls + 1 /\ last'.result \in Errors) => UNCHANGED storage]_vars

\* A vote with sufficient budget failed on an unregistered candidate.
C6_Witness ==
    /\ last.op = "vote"
    /\ Registered(voters, last.caller)
    /\ ~Registered(voters, last.target)
    /\ last.amount # I_MIN
    /\ Abs(last.amount) <= voters[last.caller].available_votes
    /\ last.result = UnregisteredVoter

\* C7 (as stated): available_votes of a record never increases from one state
\* to a later one, and decreases only by a successful vote of that voter.
C7_BudgetNeverIncreases ==
    [][\A a \in AccountId :
          (Registered(voters, a) /\ Registered(voters', a))
          => (/\ voters'[a].available_votes <= voters[a].available_votes
              /\ (voters'[a].available_votes < voters[a].available_votes
                  => (Calls("vote") /\ last'.result = Ok /\ last'.caller = a)))]_vars

\* C7 (amended): add_voter(a, n) sets a's available_votes to n; every other
\* call leaves it or, when it is a's successful vote, decreases it.
C7_BudgetOnlyResetByAddVoter ==
    [][\A a \in AccountId :
          /\ (Calls("add_voter") /\ last'.result = Ok /\ last'.target = a)
             => (Registered(voters', a)
                 /\ voters'[a].available_votes = last'.amount)
          /\ (/\ Registered(voters, a)
              /\ Registered(voters', a)
              /\ ~(Calls("add_voter") /\ last'.result = Ok /\ last'.target = a))
             => (/\ voters'[a].available_votes <= voters[a].available_votes
                 /\ (voters'[a].available_votes < voters[a].available_votes
                     => (Calls("vote") /\ last'.result = Ok /\ last'.caller = a)))]_vars

\* A successful downvote: the budget was debited by a negative amount's magnitude.
C7_Witness ==
    /\ last.op = "vote"
    /\ last.result = Ok
    /\ last.amount < 0
    /\ voters[last.caller].available_votes < U_MAX

\* C8 (as stated): reputation is 0 at registration and the reputation of a
\* registered account changes only in a successful vote on it by another account.
C8_ReputationOnlyByVotes ==
    [][\A a \in AccountId :
          /\ (Calls("add_voter") /\ last'.result = Ok /\ last'.target = a)
             => voters'[a].reputation = 0
          /\ (/\ Registered(voters, a)
              /\ Registered(voters', a)
              /\ voters'[a].reputation # voters[a].reputation)
             => (/\ Calls("vote")
                 /\ last'.result = Ok
                 /\ last'.target = a
                 /\ last'.caller # a)]_vars

\* C8 (amended): reputation is 0 after every add_voter, and the reputation of
\* a registered account changes only in a successful vote on it by another
\* account or in the owner's add_voter for it, which resets it to 0.
C8_ReputationByVotesOrReset ==
    [][\A a \in AccountId :
          /\ (Calls("add_voter") /\ last'.result = Ok /\ last'.target = a)
             => (Registered(voters', a) /\ voters'[a].reputation = 0)
          /\ (/\ Registered(voters, a)
              /\ Registered(voters', a)
              /\ voters'[a].reputation # voters[a].reputation)
             => \/ (/\ Calls("vote")
                    /\ last'.result = Ok
                    /\ last'.target = a
                    /\ last'.caller # a)
                \/ (/\ Calls("add_voter")
                    /\ last'.result = Ok
                    /\ last'.target = a)
          /\ (Calls("vote") /\ last'.caller = a /\ Registered(voters', a)
                 /\ Registered(voters, a))
             => voters'[a].reputation = voters[a].reputation]_vars

\* An account with a reputation from votes was registered again.
C8_Witness ==
    /\ last.op = "add_voter"
    /\ last.result = Ok
    /\ Len(SelectSeq(voters_addresses, LAMBDA x : x = last.target)) = 2
    /\ \E b \in DOMAIN voters : b # last.target /\ voters[b].available_votes \notin Budgets

\* What get_voters returns in the current storage holds exactly one Voter
\* for account a, with reputation 0 and available_votes n.
ListsOnce(vs, addrs, a, n) ==
    LET r == get_voters_result(vs, addrs)
    IN  /\ r.result = Ok
        /\ Cardinality({i \in 1 .. Len(r.voters) : r.voters[i].address = a}) = 1
        /\ \A i \in 1 .. Len(r.voters) :
              r.voters[i].address = a
              => (r.voters[i].reputation = 0 /\ r.voters[i].available_votes = n)

\* The account a has never been registered: it has no record and add_voter
\* never appended it to the enumeration sequence.
NeverRegistered(a) ==
    /\ ~Registered(voters, a)
    /\ \A i \in 1 .. Len(voters_addresses) : voters_addresses[i] # a

\* C9 (as stated): in every reachable state, after the owner's add_voter(a, n)
\* for an a not yet registered, the next get_voters returns Ok with exactly one
\* Voter for a, of reputation 0 and available_votes n.
C9_AddThenList ==
    [][(/\ Calls("add_voter")
        /\ last'.result = Ok
        /\ NeverRegistered(last'.target))
       => ListsOnce(voters', voters_addresses', last'.target, last'.amount)]_vars

\* C9 (amended): the same, in the states where every account of the
\* enumeration sequence has a record (no remove_voter left a stale entry).
C9_AddThenListNoStale ==
    [][(/\ Calls("add_voter")
        /\ last'.result = Ok
        /\ NeverRegistered(last'.target)
        /\ \A i \in 1 .. Len(voters_addresses) :
              Registered(voters, voters_addresses[i]))
       => ListsOnce(voters', voters_addresses', last'.target, last'.amount)]_vars

\* A second account was just registered and get_voters lists it once.
C9_Witness ==
    /\ last.op = "add_voter"
    /\ last.result = Ok
    /\ Len(voters_addresses) >= 2
    /\ ListsOnce(voters, voters_addresses, last.target, last.amount)

\* C10: the owner is the account that instantiated the contract, in every
\* reachable state.
C10_OwnerIsDeployer == owner = deployer

\* Other accounts were registered, voted and a record was removed.
C10_Witness ==
    /\ last.op = "remove_voter"
    /\ last.result = Ok
    /\ Len(voters_addresses) >= 2
    /\ \E a \in DOMAIN voters : voters[a].reputation # 0

\* The error of the first violated precondition of vote(a, b, v), in the
\* order caller record, budget, self-vote, candidate record; "none" if all hold.
FirstViolated(vs, a, b, v) ==
    IF ~Registered(vs, a) THEN UnregisteredVoter
    ELSE IF vs[a].available_votes < Abs(v) THEN VoterAlreadyVoted
    ELSE IF b = a THEN VoterEqualToCandidate
    ELSE IF ~Registered(vs, b) THEN UnregisteredVoter
    ELSE "none"

\* C11: vote returns the error of the first violated precondition in the
\* order (1) caller has a record, (2) available_votes >= |amount|,
\* (3) candidate # caller, (4) candidate has a record; so a registered caller
\* with insufficient budget gets VoterAlreadyVoted whoever the candidate is.
C11_FirstViolatedIsReturned ==
    [][(/\ Calls("vote")
        /\ FirstViolated(voters, last'.caller, last'.target, last'.amount) # "none")
       => last'.result =
              FirstViolated(voters, last'.caller, last'.target, last'.amount)]_vars

\* C12: a vote that passes the four validation steps (its magnitude has been
\* computed) returns Ok with both updates applied exactly: the addition to the
\* candidate's reputation and the debit of the caller's budget do not
\* overflow, underflow or abort, and available_votes stays >= 0.
C12_SettlementCannotFail ==
    [][(/\ Calls("vote")
        /\ FirstViolated(voters, last'.caller, last'.target, last'.amount) = "none"
        /\ ~(overflow_checks /\ abs_overflows(last'.amount)))
       => (/\ last'.result = Ok
           /\ voters'[last'.target].reputation
                  = voters[last'.target].reputation + last'.amount
           /\ voters'[last'.caller].available_votes
                  = voters[last'.caller].available_votes - Abs(last'.amount)
           /\ voters'[last'.caller].available_votes >= 0)]_vars

\* C13: for every amount, I_MIN included, the magnitude that vote compares
\* with the budget and debits is the mathematical |amount|, and the call
\* returns Ok or an error instead of aborting (stated for the calls in which
\* the addition to the reputation cannot overflow, which C12 is about).
C13_MagnitudeIsAbsoluteValue ==
    [][(/\ Calls("vote")
        /\ Registered(voters, last'.caller)
        /\ ~(/\ Registered(voters, last'.target)
             /\ add_overflows(voters[last'.target].reputation, last'.amount)))
       => (/\ last'.result \in Errors \cup {Ok}
           /\ (last'.result = VoterAlreadyVoted
               <=> voters[last'.caller].available_votes < Abs(last'.amount))
           /\ (last'.result = Ok
               => voters'[last'.caller].available_votes
                      = voters[last'.caller].available_votes - Abs(last'.amount)))]_vars

\* The accounts listed in the enumeration sequence.
Listed(addrs) == {addrs[i] : i \in 1 .. Len(addrs)}

\* C14: get_voters returns Ok exactly when every account of the enumeration
\* sequence has a record; then it returns one Voter per entry, in insertion
\* order (an account listed twice is returned twice); otherwise it returns
\* UnregisteredVoter and no list. It never changes the storage.
C14_GetVotersAllOrNothing ==
    [][Calls("get_voters")
       => (/\ (last'.result = Ok <=> Listed(voters_addresses) \subseteq DOMAIN voters)
           /\ (last'.result = Ok
               => (/\ Len(last'.ret) = Len(voters_addresses)
                   /\ \A i \in 1 .. Len(voters_addresses) :
                         last'.ret[i] = voters[voters_addresses[i]]))
           /\ (last'.result # Ok
               => (last'.result = UnregisteredVoter /\ last'.ret = <<>>))
           /\ UNCHANGED storage)]_vars

\* get_voters returned a list in which an account registered twice shows twice.
C14_Witness ==
    /\ last.op = "get_voters"
    /\ last.result = Ok
    /\ Len(last.ret) = 3
    /\ Cardinality(Listed(voters_addresses)) = 2

\* Account y was removed and has not been registered again: it is still in
\* the enumeration sequence and has no record.
Stale(vs, addrs, y) == y \in Listed(addrs) /\ ~Registered(vs, y)

\* C15: after the owner's successful remove_voter(y), every get_voters call
\* returns UnregisteredVoter, whatever happens in between, until add_voter
\* registers y again: the removal leaves y stale, only a successful
\* add_voter(y) ends that, and get_voters fails while any account is stale.
C15_RemovedBlocksListing ==
    [][\A y \in AccountId :
          /\ (Calls("remove_voter") /\ last'.result = Ok /\ last'.target = y)
             => Stale(voters', voters_addresses', y)
          /\ (/\ Stale(voters, voters_addresses, y)
              /\ ~(Calls("add_voter") /\ last'.result = Ok /\ last'.target = y))
             => Stale(voters', voters_addresses', y)
          /\ (Stale(voters, voters_addresses, y) /\ Calls("get_voters"))
             => last'.result = UnregisteredVoter]_vars

\* get_voters failed after a removal, with another voter still registered.
C15_Witness ==
    /\ last.op = "get_voters"
    /\ last.result = UnregisteredVoter
    /\ \E y \in AccountId : Stale(voters, voters_addresses, y)
    /\ DOMAIN voters # {}

\* C16: the owner's remove_voter(t) for a t with a record returns Ok, deletes
\* exactly t's record and leaves every other record, the owner and the whole
\* enumeration sequence (t included) as they were.
C16_RemoveDeletesOnlyTarget ==
    [][(/\ Calls("remove_voter")
        /\ last'.caller = owner
        /\ Registered(voters, last'.target))
       => (/\ last'.result = Ok
           /\ DOMAIN voters' = DOMAIN voters \ {last'.target}
           /\ \A k \in DOMAIN voters' : voters'[k] = voters[k]
           /\ UNCHANGED <<voters_addresses, owner>>)]_vars

\* A record was removed while another one, with a reputation, stayed.
C16_Witness ==
    /\ last.op = "remove_voter"
    /\ last.result = Ok
    /\ last.target \in Listed(voters_addresses)
    /\ \E k \in DOMAIN voters : voters[k].reputation # 0

\* C17: the owner's add_voter(t, n) for a t that already has a record returns
\* Ok, replaces the record by one with reputation 0 and available_votes n,
\* appends t once more to the enumeration sequence and leaves all other
\* records unchanged.
C17_ReRegistrationOverwrites ==
    [][(/\ Calls("add_voter")
        /\ last'.caller = owner
        /\ Registered(voters, last'.target))
       => (/\ last'.result = Ok
           /\ voters' = [voters EXCEPT ![last'.target] =
                  [reputation |-> 0, address |-> last'.target,
                   available_votes |-> last'.amount]]
           /\ voters_addresses' = Append(voters_addresses, last'.target)
           /\ Len(voters_addresses') = Len(voters_addresses) + 1
           /\ owner' = owner)]_vars

\* An account was registered again, with the full budget, next to a voter
\* holding a reputation.
C17_Witness ==
    /\ last.op = "add_voter"
    /\ last.result = Ok
    /\ Len(SelectSeq(voters_addresses, LAMBDA x : x = last.target)) = 2
    /\ voters[last.target].available_votes = U_MAX
    /\ \E k \in DOMAIN voters : voters[k].reputation # 0

\* addrs is an initial segment of addrs2.
IsPrefix(addrs, addrs2) ==
    /\ Len(addrs) <= Len(addrs2)
    /\ \A i \in 1 .. Len(addrs) : addrs[i] = addrs2[i]

\* C18: every account with a record occurs in the enumeration sequence, and
\* the sequence is append-only: each step keeps the old sequence as a prefix
\* and lengthens it, by exactly one entry, only in a successful add_voter.
C18_EnumerationAppendOnly ==
    [][/\ DOMAIN voters' \subseteq Listed(voters_addresses')
       /\ IsPrefix(voters_addresses, voters_addresses')
       /\ (voters_addresses' # voters_addresses
           => (/\ Calls("add_voter")
               /\ last'.result = Ok
               /\ voters_addresses' = Append(voters_addresses, last'.target)))
       /\ ((Calls("add_voter") /\ last'.result = Ok)
           => Len(voters_addresses') = Len(voters_addresses) + 1)]_vars

\* A second, different account was appended after a removal left the first
\* one listed without a record.
C18_Witness ==
    /\ last.op = "add_voter"
    /\ last.result = Ok
    /\ Len(voters_addresses) = 2
    /\ voters_addresses[1] # voters_addresses[2]
    /\ ~Registered(voters, voters_addresses[1])

\* C19: for every account k with a record, the address stored in the record
\* is k, so comparing the candidate with voter.address is comparing it with
\* the caller.
C19_AddressIsKey ==
    \A k \in DOMAIN voters : voters[k].address = k

\* Both records of a successful vote were written back.
C19_Witness ==
    /\ last.op = "vote"
    /\ last.result = Ok
    /\ voters[last.target].reputation # 0
    /\ voters[last.caller].available_votes \notin Budgets

\* Sum of f over the set S of its arguments.
RECURSIVE Sum(_, _)
Sum(f, S) ==
    IF S = {} THEN 0
    ELSE LET x == CHOOSE y \in S : TRUE IN f[x] + Sum(f, S \ {x})

\* Sum over all records of |reputation|.
TotalReputation == Sum([k \in DOMAIN voters |-> Abs(voters[k].reputation)], DOMAIN voters)

\* Sum over all records of the budget given at registration minus available_votes.
TotalSpent ==
    Sum([k \in DOMAIN voters |-> granted[k] - voters[k].available_votes], DOMAIN voters)

\* C20: when every account is registered at most once and no voter is
\* removed, the sum of |reputation| over all records is at most the budget
\* spent so far, the sum of (budget given at registration - available_votes).
C20_ReputationBackedByBudget == TotalReputation <= TotalSpent

\* Two voters voted on each other, one up and one down.
C20_Witness ==
    /\ last.op = "vote"
    /\ last.result = Ok
    /\ \E k \in DOMAIN voters : voters[k].reputation < 0
    /\ \E k \in DOMAIN voters : voters[k].reputation > 0

====
